---- MODULE Spec2Model ----
(***************************************************************************)
(* A model of the Blockchain class of src/src/blockchain.js.               *)
(*                                                                         *)
(* JavaScript strings are sequences of one-character strings.  Every       *)
(* Promise executor of the class runs synchronously up to its first        *)
(* `await`; the only await that suspends a public operation is the one of  *)
(* submitStar (line 172), so an operation is one atomic step, and the      *)
(* continuation of submitStar after its await is a second step.            *)
(*                                                                         *)
(* External collaborators are modelled by their contract: SHA256 is an     *)
(* injective digest, bitcoinMessage.verify accepts exactly the signatures  *)
(* made by the address over the message and throws on a garbled one.       *)
(***************************************************************************)
EXTENDS Integers, Sequences, FiniteSets, TLC

\* ---------------------------------------------------------------- bounds
MaxCalls == 2          \* submitStar invocations in one behaviour
MaxTicks == 1          \* clock advances in one behaviour
MaxTampers == 2        \* stored fields mutated directly in one behaviour

\* ------------------------------------------------------- JavaScript values
null == [null |-> TRUE]
undefined == <<"#undefined">>       \* not a string: no element is a character
NaN == [nan |-> TRUE, val |-> 0]
Num(n) == [nan |-> FALSE, val |-> n]

Digits == <<"0", "1", "2", "3", "4", "5", "6", "7", "8", "9">>
IsDigit(c) == \E i \in 1..10 : Digits[i] = c
DigitVal(c) == (CHOOSE i \in 1..10 : Digits[i] = c) - 1

\* Number.prototype.toString for a non-negative integer
RECURSIVE toString(_)
toString(n) ==
  IF n < 10 THEN <<Digits[n + 1]>>
  ELSE toString(n \div 10) \o <<Digits[(n % 10) + 1]>>

\* String.prototype.slice(0, -3)
slice(s) == SubSeq(s, 1, Len(s) - 3)

\* new Date().getTime().toString().slice(0, -3): the clock in seconds, a string
getTimeSlice(ms) == slice(toString(ms))

\* String.prototype.split(":")
RECURSIVE splitFrom(_, _, _)
splitFrom(s, i, cur) ==
  IF i > Len(s) THEN <<cur>>
  ELSE IF s[i] = ":" THEN <<cur>> \o splitFrom(s, i + 1, <<>>)
  ELSE splitFrom(s, i + 1, Append(cur, s[i]))
split(s) == splitFrom(s, 1, <<>>)

\* message.split(":")[1]: the element at JavaScript index 1, or undefined
field1(parts) == IF Len(parts) >= 2 THEN parts[2] ELSE undefined

\* parseInt: the value of the longest prefix of decimal digits, NaN if none
RECURSIVE parseDigits(_, _, _)
parseDigits(s, i, acc) ==
  IF i > Len(s) \/ ~IsDigit(s[i]) THEN acc
  ELSE parseDigits(s, i + 1, 10 * acc + DigitVal(s[i]))
parseInt(s) ==
  IF s = undefined \/ Len(s) = 0 \/ ~IsDigit(s[1]) THEN NaN
  ELSE Num(parseDigits(s, 1, 0))

\* a - b and a > b on JavaScript numbers
Minus(a, b) == IF a.nan \/ b.nan THEN NaN ELSE Num(a.val - b.val)
Greater(a, b) == ~a.nan /\ ~b.nan /\ a.val > b.val

fiveMinutesInSeconds == 5 * 60

\* ------------------------------------------------------------- input sets
StartMs == 1000
TickSteps == {300000, 301000}
Addresses == {<<"A">>, <<"B">>}
starRegistry == <<"s", "t", "a", "r", "R", "e", "g", "i", "s", "t", "r", "y">>

\* star payloads; Unserializable makes JSON.stringify throw (a BigInt, a cycle)
Star1 == <<"s", "1">>
Unserializable == <<"#cyclic">>
Stars == {Star1, Unserializable}

\* stars that are JSON texts, the encoding of the strings p and q
StarP == <<"\"", "p", "\"">>
StarQ == <<"\"", "q", "\"">>
EncodedStars == {StarP, StarQ, Star1}

\* JSON.parse(text) for a string: a quoted text without inner quotes decodes
\* to its content, a text of digits to a number, any other text throws
JSONparse(text) ==
  IF /\ Len(text) >= 2
     /\ text[1] = "\"" /\ text[Len(text)] = "\""
     /\ \A i \in 2..(Len(text) - 1) : text[i] # "\""
    THEN [ok |-> TRUE, value |-> [string |-> SubSeq(text, 2, Len(text) - 1)]]
  ELSE IF Len(text) >= 1 /\ \A i \in 1..Len(text) : IsDigit(text[i])
    THEN [ok |-> TRUE, value |-> [number |-> parseDigits(text, 1, 0)]]
  ELSE [ok |-> FALSE, value |-> [error |-> "SyntaxError"]]

\* the challenge `${address}:${seconds}:starRegistry` issued at clock ms
challenge(address, ms) ==
  address \o <<":">> \o getTimeSlice(ms) \o <<":">> \o starRegistry

\* what a caller may pass as message: the challenge issued to the address at
\* StartMs, a value that is not a string and, from the holder of address A, a
\* text without a colon and the challenge issued at second 1 to "A:7"
NoColon == <<"A">>
ColonAddress == <<"A", ":", "7", ":", "1", ":">> \o starRegistry
Messages(address) ==
  {challenge(address, StartMs), undefined}
    \cup (IF address = <<"A">> THEN {NoColon, ColonAddress} ELSE {})

\* signatures: the one made by `signer` over `msg`, or bytes that do not decode
Sign(signer, msg) == [signer |-> signer, msg |-> msg]
Garbled == [garbled |-> TRUE]
Signatures(message) ==
  {Sign(a, message) : a \in Addresses} \cup {Garbled}

\* bitcoinMessage.verify(message, address, signature): "throws", TRUE or FALSE
verify(message, address, signature) ==
  IF "garbled" \in DOMAIN signature THEN "throws"
  ELSE IF signature.signer = address /\ signature.msg = message THEN "true"
  ELSE "false"

\* ------------------------------------------------------------------ blocks
\* new BlockClass.Block(data): a block that holds only its body
Block(data) == [body |-> data]

GenesisData == [data |-> <<"G", "e", "n", "e", "s", "i", "s">>]

\* JSON.stringify(block) at line 81: the fields the block has at that point
Serializable(block) ==
  ~("star" \in DOMAIN block.body /\ block.body.star = Unserializable)
\* a slip of lines 76-81: the text is taken before time and height are set
JSONstringify_early(block) == <<block.body, block.previousBlockHash>>

JSONstringify(block) ==
  <<block.body, block.previousBlockHash, block.time, block.height>>
SHA256(text) == [sha256 |-> text]

\* ------------------------------------------------------------------- state
VARIABLES
  chain,     \* this.chain
  height,    \* this.height
  nowMs,     \* new Date().getTime()
  ticks,     \* number of clock advances so far
  calls,     \* the submitStar invocations, in invocation order
  last,      \* the most recent public operation: its arguments and locals
  validating \* the validateChain invocation in flight: its locals
vars == <<chain, height, nowMs, ticks, calls, last, validating>>

\* a slip of lines 69-74: every block links to the genesis block
previousHashFor_first(self) ==
  IF self.height = -1 THEN null ELSE self.chain[1].hash

\* lines 69-74: the previousBlockHash of the block being added
previousHashFor(self) ==
  IF self.height = -1 THEN null ELSE self.chain[self.height + 1].hash

\* a slip of line 84: unshift instead of push
push_front(blocks, block) == <<block>> \o blocks

\* line 84: self.chain.push(block)
push(blocks, block) == Append(blocks, block)

\* a slip of line 87: the cached height is left as it was
heightAfter_stale(self, block) == self.height

\* line 87: the value assigned to self.height
heightAfter(self, block) == block.height

\* a slip of line 78: the height of the last block is given again
heightFor_same(self) == IF self.height = -1 THEN 0 ELSE self.height

\* line 78: the height of the block being added
heightFor(self) == self.height + 1

\* a slip of line 81: the hash is not assigned before the push
withHash_missing(b) == b @@ [hash |-> null]

\* line 81: block.hash = SHA256(JSON.stringify(block)).toString()
withHash(b) == b @@ [hash |-> SHA256(JSONstringify(b))]

\* a slip of lines 81-87: the block is pushed before it is hashed, so a throw
\* of JSON.stringify comes after the push
_addBlock_pushFirst(self, block, ms) ==
  LET b == [body |-> block.body,
            previousBlockHash |-> previousHashFor(self),
            time |-> getTimeSlice(ms),
            height |-> heightFor(self)]
  IN IF ~Serializable(b)
       THEN [chain |-> push(self.chain, b @@ [hash |-> null]),
             height |-> heightAfter(self, b),
             settled |-> "rejected", value |-> [error |-> "TypeError"]]
       ELSE [chain |-> push(self.chain, withHash(b)),
             height |-> heightAfter(self, withHash(b)),
             settled |-> "resolved", value |-> withHash(b)]

\* _addBlock(block) on the chain `self` at clock ms (lines 64-96): the chain
\* and height it leaves and the settlement of the promise it returns.  The
\* executor has no await, so it runs to its end within the call.
_addBlock(self, block, ms) ==
  LET b == [body |-> block.body,
            previousBlockHash |-> previousHashFor(self),
            time |-> getTimeSlice(ms),
            height |-> heightFor(self)]
  IN IF ~Serializable(b)
       THEN \* JSON.stringify throws at line 81, caught at line 91
            [chain |-> self.chain, height |-> self.height,
             settled |-> "rejected", value |-> [error |-> "TypeError"]]
       ELSE LET nb == withHash(b)
            IN [chain |-> push(self.chain, nb),
                height |-> heightAfter(self, nb),
                settled |-> "resolved", value |-> nb]

\* a slip of line 37: the test of the height is lost
initializeChain_always(self, ms) == _addBlock(self, Block(GenesisData), ms)

\* initializeChain() on the chain `self`
initializeChain(self, ms) ==
  IF self.height = -1 THEN _addBlock(self, Block(GenesisData), ms)
  ELSE [chain |-> self.chain, height |-> self.height,
        settled |-> "resolved", value |-> null]

\* a slip of line 28: initializeChain is not called
constructor_bare(ms) ==
  [chain |-> <<>>, height |-> -1, settled |-> "resolved", value |-> null]

\* constructor()
constructor(ms) == initializeChain([chain |-> <<>>, height |-> -1], ms)

\* no validateChain invocation is in flight
Idle == [pc |-> "idle"]

Init ==
  /\ nowMs = StartMs
  /\ ticks = 0
  /\ chain = constructor(StartMs).chain
  /\ height = constructor(StartMs).height
  /\ calls = <<>>
  /\ last = [op |-> "constructor"]
  /\ validating = Idle

\* the clock advances
Tick ==
  /\ ticks < MaxTicks
  /\ \E d \in TickSteps : nowMs' = nowMs + d
  /\ ticks' = ticks + 1
  /\ UNCHANGED <<chain, height, calls, last, validating>>

\* the receiver of a method call: the fields of `this`
This == [chain |-> chain, height |-> height]

Error(text) == [error |-> text]
Pending == [pending |-> TRUE]

\* line 141: parseInt(message.split(":")[1])
messageTimeOf(message) == parseInt(field1(split(message)))

\* a slip of line 152: >= instead of >
tooOld_orEqual(timeElapsed) ==
  ~timeElapsed.nan /\ timeElapsed.val >= fiveMinutesInSeconds

\* line 152: timeElapsed > fiveMinutesInSeconds
tooOld(timeElapsed) == Greater(timeElapsed, Num(fiveMinutesInSeconds))

\* a slip of line 159: the negation is lost
notVerified_flipped(isVerified) == isVerified = "true"

\* line 159: !isVerified
notVerified(isVerified) == isVerified # "true"

\* a slip of lines 165-169: address and message change places
starData_swapped(address, message, star) ==
  [address |-> message, message |-> address, star |-> star]

\* lines 165-169: the data of the new block
starData(address, message, star) ==
  [address |-> address, message |-> message, star |-> star]

\* submitStar(address, message, signature, star) up to its await (lines
\* 137-172).  A throw inside the async executor rejects the promise of the
\* executor, which nobody holds: the promise of submitStar stays pending.
submitStar(address, message, signature, star) ==
  LET messageTime == messageTimeOf(message)
      currentTime == parseInt(getTimeSlice(nowMs))
      timeElapsed == Minus(currentTime, messageTime)
      isVerified == verify(message, address, signature)
      added == _addBlock(This, Block(starData(address, message, star)), nowMs)
      locals == [op |-> "submitStar", address |-> address,
                 message |-> message, star |-> star,
                 messageTime |-> messageTime, currentTime |-> currentTime,
                 timeElapsed |-> timeElapsed]
  IN /\ Len(calls) < MaxCalls
     /\ IF message = undefined
          THEN \* message.split is not a function: TypeError at line 141
               /\ calls' = Append(calls, [pc |-> "done", state |-> "pending",
                                          value |-> Pending])
               /\ last' = [locals EXCEPT !.messageTime = NaN,
                                         !.timeElapsed = NaN]
                            @@ [isVerified |-> "not called"]
               /\ UNCHANGED <<chain, height>>
        ELSE IF tooOld(timeElapsed)
          THEN /\ calls' = Append(calls,
                          [pc |-> "done", state |-> "rejected",
                           value |-> Error("Time elapsed is greater than 5 minutes.")])
               /\ last' = locals @@ [isVerified |-> "not called"]
               /\ UNCHANGED <<chain, height>>
        ELSE IF isVerified = "throws"
          THEN /\ calls' = Append(calls, [pc |-> "done", state |-> "pending",
                                          value |-> Pending])
               /\ last' = locals @@ [isVerified |-> isVerified]
               /\ UNCHANGED <<chain, height>>
        ELSE IF notVerified(isVerified)
          THEN /\ calls' = Append(calls,
                          [pc |-> "done", state |-> "rejected",
                           value |-> Error("Message verification failed.")])
               /\ last' = locals @@ [isVerified |-> isVerified]
               /\ UNCHANGED <<chain, height>>
        ELSE /\ chain' = added.chain
             /\ height' = added.height
             /\ calls' = Append(calls, [pc |-> "await", state |-> "pending",
                                        value |-> Pending,
                                        added |-> added.settled,
                                        newBlock |-> added.value])
             /\ last' = locals @@ [isVerified |-> isVerified]
     /\ UNCHANGED <<nowMs, ticks, validating>>

\* the continuation of submitStar after `await self._addBlock(newBlock)`
\* (lines 172-175); continuations run in the order of their awaits
submitStarResume(i) ==
  /\ i \in 1..Len(calls)
  /\ calls[i].pc = "await"
  /\ \A j \in 1..(i - 1) : calls[j].pc = "done"
  /\ calls' = [calls EXCEPT ![i] =
                 IF calls[i].added = "resolved"
                   THEN [pc |-> "done", state |-> "resolved",
                         value |-> calls[i].newBlock]
                   ELSE [pc |-> "done", state |-> "pending",
                         value |-> Pending]]
  /\ UNCHANGED <<chain, height, nowMs, ticks, last, validating>>

SubmitStar ==
  \E address \in Addresses, star \in Stars :
    \E message \in Messages(address) :
      \E signature \in Signatures(message) :
        submitStar(address, message, signature, star)

SubmitStarResume == \E i \in 1..MaxCalls : submitStarResume(i)

\* submitStar by the holders of the addresses, each with the challenge issued
\* to it at StartMs, its own signature over it and a star
SubmitStarSigned ==
  \E address \in Addresses :
    submitStar(address, challenge(address, StartMs),
               Sign(address, challenge(address, StartMs)), Star1)

\* initializeChain() called again (lines 36-41)
InitializeChain ==
  /\ chain' = initializeChain(This, nowMs).chain
  /\ height' = initializeChain(This, nowMs).height
  /\ last' = [op |-> "initializeChain", settled |-> "resolved"]
  /\ UNCHANGED <<nowMs, ticks, calls, validating>>

\* getChainHeight() (lines 46-50)
getChainHeight(self) == [settled |-> "resolved", value |-> self.height]

GetChainHeight ==
  /\ last' = [op |-> "getChainHeight"] @@ getChainHeight(This)
  /\ UNCHANGED <<chain, height, nowMs, ticks, calls, validating>>

\* a slip of lines 110-113: the milliseconds are not cut off
requestMessageOwnershipVerification_ms(address, ms) ==
  [settled |-> "resolved",
   value |-> address \o <<":">> \o toString(ms) \o <<":">> \o starRegistry]

\* requestMessageOwnershipVerification(address) (lines 107-118)
requestMessageOwnershipVerification(address, ms) ==
  [settled |-> "resolved",
   value |-> address \o <<":">> \o slice(toString(ms)) \o <<":">> \o starRegistry]

RequestMessageOwnershipVerification ==
  \E address \in Addresses :
    /\ last' = [op |-> "requestMessageOwnershipVerification",
                address |-> address, currentMs |-> nowMs]
                 @@ requestMessageOwnershipVerification(address, nowMs)
    /\ UNCHANGED <<chain, height, nowMs, ticks, calls, validating>>

\* a slip of line 189: the predicate reads previousBlockHash
findByHash_previous(blocks, hash) ==
  LET matches == {i \in 1..Len(blocks) : blocks[i].previousBlockHash = hash}
  IN IF matches = {} THEN 0
     ELSE CHOOSE i \in matches : \A j \in matches : i <= j

\* Array.prototype.find with the predicate block.hash === hash: the index of
\* the first match (from 1), 0 when there is none
findByHash(blocks, hash) ==
  LET matches == {i \in 1..Len(blocks) : blocks[i].hash = hash}
  IN IF matches = {} THEN 0
     ELSE CHOOSE i \in matches : \A j \in matches : i <= j

\* getBlockByHash(hash) (lines 185-199)
getBlockByHash(self, hash) ==
  LET k == findByHash(self.chain, hash)
  IN IF k # 0 THEN [settled |-> "resolved", value |-> self.chain[k]]
     ELSE [settled |-> "rejected",
           value |-> Error("Block not found for the given hash.")]

UnknownHash == SHA256(<<"unknown">>)
HashArgs == {chain[i].hash : i \in 1..Len(chain)} \cup {UnknownHash}

GetBlockByHash ==
  \E hash \in HashArgs :
    /\ last' = [op |-> "getBlockByHash", hash |-> hash]
                 @@ getBlockByHash(This, hash)
    /\ UNCHANGED <<chain, height, nowMs, ticks, calls, validating>>

\* Array.prototype.filter with the predicate p.height === height
RECURSIVE filterByHeight(_, _)
filterByHeight(blocks, h) ==
  IF blocks = <<>> THEN <<>>
  ELSE (IF Head(blocks).height = h THEN <<Head(blocks)>> ELSE <<>>)
         \o filterByHeight(Tail(blocks), h)

\* a slip of line 214: a missing block rejects, as getBlockByHash does
getBlockByHeight_rejects(self, h) ==
  LET found == filterByHeight(self.chain, h)
  IN IF Len(found) > 0 THEN [settled |-> "resolved", value |-> found[1]]
     ELSE [settled |-> "rejected", value |-> Error("Block not found.")]

\* getBlockByHeight(height) (lines 207-217)
getBlockByHeight(self, h) ==
  LET found == filterByHeight(self.chain, h)
  IN IF Len(found) > 0 THEN [settled |-> "resolved", value |-> found[1]]
     ELSE [settled |-> "resolved", value |-> null]

HeightArgs == -1..Len(chain)

GetBlockByHeight ==
  \E h \in HeightArgs :
    /\ last' = [op |-> "getBlockByHeight", height |-> h]
                 @@ getBlockByHeight(This, h)
    /\ UNCHANGED <<chain, height, nowMs, ticks, calls, validating>>

\* submitStar by the holders of the addresses, with a star that is a string
SubmitStarEncoded ==
  \E address \in Addresses, star \in EncodedStars :
    submitStar(address, challenge(address, StartMs),
               Sign(address, challenge(address, StartMs)), star)

\* line 231: block.body && block.body.address === address
ownedBy(block, address) ==
  "address" \in DOMAIN block.body /\ block.body.address = address

\* the loop of lines 230-235 from the block at index i: the stars pushed, or
\* the error JSON.parse throws at line 232
RECURSIVE collectStars(_, _, _, _)
collectStars(blocks, address, i, stars) ==
  IF i > Len(blocks) THEN [settled |-> "resolved", value |-> stars]
  ELSE IF ownedBy(blocks[i], address)
    THEN LET parsed == JSONparse(blocks[i].body.star)
         IN IF parsed.ok
              THEN collectStars(blocks, address, i + 1,
                                Append(stars, parsed.value))
              ELSE [settled |-> "rejected", value |-> parsed.value]
  ELSE collectStars(blocks, address, i + 1, stars)

\* getStarsByWalletAddress(address) (lines 225-242)
getStarsByWalletAddress(self, address) ==
  collectStars(self.chain, address, 1, <<>>)

GetStarsByWalletAddress ==
  \E address \in Addresses :
    /\ last' = [op |-> "getStarsByWalletAddress", address |-> address]
                 @@ getStarsByWalletAddress(This, address)
    /\ UNCHANGED <<chain, height, nowMs, ticks, calls, validating>>

\* block.validate(): the hash recomputed over the body, the height, the time
\* and the previous hash of the block equals the stored hash
validate(block) ==
  block.hash =
    SHA256(<<block.body, block.previousBlockHash, block.time, block.height>>)

invalidBlock(i) == <<"Block at height ", i, " is invalid.">>
invalidPrevious(i) ==
  <<"Block at height ", i, " has an invalid previousBlockHash.">>

\* a slip of lines 260-267: `else if`, the link is checked only on a block
\* that is valid
entriesFor_exclusive(blocks, i, valid) ==
  IF ~valid THEN <<invalidBlock(i)>>
  ELSE IF i > 0 /\ blocks[i + 1].previousBlockHash # blocks[i].hash
    THEN <<invalidPrevious(i)>>
  ELSE <<>>

\* lines 260-267: the entries the iteration for JavaScript index i pushes,
\* `valid` being what block.validate() resolved with
entriesFor(blocks, i, valid) ==
  (IF ~valid THEN <<invalidBlock(i)>> ELSE <<>>)
    \o (IF i > 0 /\ blocks[i + 1].previousBlockHash # blocks[i].hash
          THEN <<invalidPrevious(i)>> ELSE <<>>)

\* validateChain() up to its first await (lines 250-260): the loop test for
\* i = 0 and the call of block.validate()
ValidateChainStart ==
  /\ validating = Idle
  /\ IF 0 < Len(chain)
       THEN /\ validating' = [pc |-> "await", i |-> 0, errorLog |-> <<>>,
                              valid |-> validate(chain[1])]
            /\ UNCHANGED last
       ELSE /\ validating' = Idle
            /\ last' = [op |-> "validateChain", settled |-> "resolved",
                        value |-> <<>>]
  /\ UNCHANGED <<chain, height, nowMs, ticks, calls>>

\* the continuation of validateChain after `await block.validate()` (lines
\* 260-271): the rest of iteration i, then the next iteration up to its
\* await, or the resolve of line 271
ValidateChainStep ==
  /\ validating.pc = "await"
  /\ LET i == validating.i
         errorLog == validating.errorLog
                       \o entriesFor(chain, i, validating.valid)
     IN IF i + 1 < Len(chain)
          THEN /\ validating' = [pc |-> "await", i |-> i + 1,
                                 errorLog |-> errorLog,
                                 valid |-> validate(chain[i + 2])]
               /\ UNCHANGED last
          ELSE /\ validating' = Idle
               /\ last' = [op |-> "validateChain", settled |-> "resolved",
                           value |-> errorLog]
  /\ UNCHANGED <<chain, height, nowMs, ticks, calls>>

\* a stored block is mutated directly, between two operations: its body ...
TamperedData == [data |-> <<"x">>]
TamperedHash == SHA256(<<"tampered">>)
Tampers ==
  Cardinality({i \in 1..Len(chain) : chain[i].body = TamperedData})
    + Cardinality({i \in 1..Len(chain) : chain[i].hash = TamperedHash})

TamperBody ==
  \E i \in 1..Len(chain) :
    /\ validating = Idle
    /\ Tampers < MaxTampers
    /\ chain[i].body # TamperedData
    /\ chain' = [chain EXCEPT ![i].body = TamperedData]
    /\ last' = [op |-> "tamper"]
    /\ UNCHANGED <<height, nowMs, ticks, calls, validating>>

\* ... or its hash field
TamperHash ==
  \E i \in 1..Len(chain) :
    /\ validating = Idle
    /\ Tampers < MaxTampers
    /\ chain[i].hash # TamperedHash
    /\ chain' = [chain EXCEPT ![i].hash = TamperedHash]
    /\ last' = [op |-> "tamper"]
    /\ UNCHANGED <<height, nowMs, ticks, calls, validating>>

\* the submissions, with every input a caller may pass
Next ==
  \/ Tick
  \/ SubmitStar
  \/ SubmitStarResume
  \/ GetChainHeight

Spec == Init /\ [][Next]_vars

\* the queries, on the chains that signed submissions build
NextQuery ==
  \/ Tick
  \/ SubmitStarSigned
  \/ SubmitStarResume
  \/ GetChainHeight
  \/ RequestMessageOwnershipVerification
  \/ GetBlockByHash
  \/ GetBlockByHeight
  \/ GetStarsByWalletAddress
  \/ ValidateChainStart
  \/ ValidateChainStep
  \/ InitializeChain

SpecQuery == Init /\ [][NextQuery]_vars

\* the stars of an address, on the chains that submissions with string
\* stars build
NextStars ==
  \/ SubmitStarEncoded
  \/ SubmitStarResume
  \/ GetStarsByWalletAddress

SpecStars == Init /\ [][NextStars]_vars

\* validation, on chains whose stored blocks are also mutated directly
NextTamper ==
  \/ SubmitStarSigned
  \/ SubmitStarResume
  \/ TamperBody
  \/ TamperHash
  \/ ValidateChainStart
  \/ ValidateChainStep

SpecTamper == Init /\ [][NextTamper]_vars

\* ------------------------------------------------------------------ claims
IsPrefix(s, t) ==
  /\ Len(s) <= Len(t)
  /\ \A i \in 1..Len(s) : s[i] = t[i]

\* the step is an invocation of submitStar; the record of the call
IsSubmit == Len(calls') = Len(calls) + 1
NewCall == calls'[Len(calls')]

\* the appends that succeeded after genesis
Appended(i) ==
  \/ calls[i].state = "resolved"
  \/ calls[i].pc = "await" /\ calls[i].added = "resolved"
SuccessfulAppends == Cardinality({i \in 1..Len(calls) : Appended(i)})

\* C1: in every reachable state the chain is well linked: the first block
\* has previousBlockHash null and height 0, and every later block has the
\* hash of its predecessor as previousBlockHash and its index as height.
C1_WellLinked ==
  /\ Len(chain) >= 1
  /\ chain[1].previousBlockHash = null
  /\ chain[1].height = 0
  /\ \A i \in 2..Len(chain) :
       /\ chain[i].previousBlockHash = chain[i - 1].hash
       /\ chain[i].height = i - 1

C1_Witness ==
  /\ Len(chain) = 3
  /\ chain[3].previousBlockHash = chain[2].hash
  /\ chain[3].previousBlockHash # chain[1].hash

\* C2: after N successful appends following genesis the chain has N + 1
\* entries and getChainHeight resolves with N; the cached height is the
\* chain length minus one in every state; a rejected submitStar leaves the
\* chain and the height as they were.
C2_HeightIsLengthMinusOne ==
  /\ [](/\ height = Len(chain) - 1
        /\ Len(chain) = SuccessfulAppends + 1
        /\ (last.op = "getChainHeight" =>
              /\ last.settled = "resolved"
              /\ last.value = SuccessfulAppends))
  /\ [][(IsSubmit /\ NewCall.state = "rejected") =>
         (chain' = chain /\ height' = height)]_vars

C2_Witness ==
  /\ last.op = "getChainHeight"
  /\ last.value = 1
  /\ Len(chain) = 2
  /\ \E i \in 1..Len(calls) : calls[i].state = "rejected"
  /\ \E i \in 1..Len(calls) : calls[i].state = "resolved"

\* C3: the chain is append-only: in every step the chain before the step
\* is a prefix of the chain after it.
C3_AppendOnly == [][IsPrefix(chain, chain')]_vars

C3_Witness ==
  /\ Len(chain) = 3
  /\ \E i \in 1..Len(calls) : calls[i].state = "resolved"

\* the timestamp a well-formed challenge carries, and the clock, in seconds
SecondsOf(ms) == ms \div 1000
ExpiredError == Error("Time elapsed is greater than 5 minutes.")
VerificationError == Error("Message verification failed.")

C5_InvalidSignatureRejected ==
  [][(IsSubmit /\ last'.isVerified = "false") =>
      /\ NewCall.pc = "done"
      /\ NewCall.state = "rejected"
      /\ NewCall.value = VerificationError
      /\ chain' = chain
      /\ height' = height]_vars

C5_Witness ==
  /\ last.op = "submitStar"
  /\ last.isVerified = "false"
  /\ last.timeElapsed = Num(300)
  /\ calls[Len(calls)].value = VerificationError

\* a message of the form address:digits:tag, with no further colon
WellFormed(message) ==
  /\ message # undefined
  /\ LET parts == split(message)
     IN /\ Len(parts) = 3
        /\ Len(parts[2]) > 0
        /\ \A i \in 1..Len(parts[2]) : IsDigit(parts[2][i])

\* C6: submitStar with a message that lacks the colon-delimited structure
\* (no integer timestamp in the second field, or a colon inside the address)
\* fails with a parsing error, creates no block and never goes past the
\* freshness check.
C6_MalformedChallengeRejected ==
  [][(IsSubmit /\ ~WellFormed(last'.message)) =>
      /\ NewCall.state = "rejected"
      /\ NewCall.value = Error("MalformedChallenge")
      /\ last'.isVerified = "not called"
      /\ chain' = chain
      /\ height' = height]_vars

\* the challenge of the last submitStar was fresh: elapsed <= 300
Fresh(locals) == ~locals.timeElapsed.nan /\ locals.timeElapsed.val <= 300

\* the step runs the continuation of call i
IsResume(i) == calls[i].pc = "await" /\ calls'[i].pc = "done"

C8_EverySubmitSettles ==
  \A i \in 1..Len(calls) :
    calls[i].pc = "done" => calls[i].state \in {"resolved", "rejected"}

NotFoundError == Error("Block not found for the given hash.")

\* C9: getBlockByHash(h) resolves with the first block of the chain whose
\* hash is h, so with chain[k] for the hash of every block k, and rejects
\* with the not-found error when no block has hash h.
C9_BlockByHash ==
  last.op = "getBlockByHash" =>
    /\ \A k \in 1..Len(chain) :
         (chain[k].hash = last.hash
            /\ \A j \in 1..(k - 1) : chain[j].hash # last.hash) =>
           (last.settled = "resolved" /\ last.value = chain[k])
    /\ (\A k \in 1..Len(chain) : chain[k].hash # last.hash) =>
         (last.settled = "rejected" /\ last.value = NotFoundError)

C9_Witness ==
  /\ last.op = "getBlockByHash"
  /\ Len(chain) = 3
  /\ last.hash = chain[2].hash
  /\ last.settled = "resolved"
  /\ last.value = chain[2]

\* C10: getBlockByHeight(h) never rejects: it resolves with chain[h] when
\* 0 <= h <= height and with null for every other h.
C10_BlockByHeight ==
  last.op = "getBlockByHeight" =>
    /\ last.settled = "resolved"
    /\ (0 <= last.height /\ last.height <= height) =>
         last.value = chain[last.height + 1]
    /\ (last.height < 0 \/ last.height > height) => last.value = null

C10_Witness ==
  /\ last.op = "getBlockByHeight"
  /\ Len(chain) = 3
  /\ last.height = 3
  /\ last.settled = "resolved"
  /\ last.value = null

\* the stars of the blocks of an address, decoded, oldest first
RECURSIVE StarsOf(_, _)
StarsOf(blocks, address) ==
  IF blocks = <<>> THEN <<>>
  ELSE LET b == blocks[Len(blocks)]
           before == StarsOf(SubSeq(blocks, 1, Len(blocks) - 1), address)
       IN IF "address" \in DOMAIN b.body /\ b.body.address = address
            THEN Append(before, JSONparse(b.body.star).value)
            ELSE before

\* C11: getStarsByWalletAddress(a) never rejects and resolves with the
\* decoded stars, oldest first, of exactly the blocks whose body address is
\* a, on every chain submitStar can build.
C11_StarsByAddress ==
  last.op = "getStarsByWalletAddress" =>
    /\ last.settled = "resolved"
    /\ last.value = StarsOf(chain, last.address)

\* the checks of validateChain on block k (from 1) of the chain
HashFails(k) ==
  chain[k].hash #
    [sha256 |-> <<chain[k].body, chain[k].previousBlockHash,
                  chain[k].time, chain[k].height>>]
LinkFails(k) == k > 1 /\ chain[k].previousBlockHash # chain[k - 1].hash
Count(log, entry) == Cardinality({j \in 1..Len(log) : log[j] = entry})
Bit(b) == IF b THEN 1 ELSE 0
RECURSIVE Problems(_)
Problems(k) ==
  IF k = 0 THEN 0
  ELSE Problems(k - 1) + Bit(HashFails(k)) + Bit(LinkFails(k))

\* C12: validateChain examines every block and resolves with exactly one
\* invalid-block entry for each index whose own hash check fails and one
\* invalid-link entry for each index i > 0 whose previousBlockHash differs
\* from the hash of block i - 1, both for the same index when both fail; so
\* a tampered body at height 1 alone gives one entry, and altering the hash
\* of that block too adds the link entry of height 2 (block 2 having been
\* appended before).
C12_ValidateChainReportsAll ==
  last.op = "validateChain" =>
    /\ last.settled = "resolved"
    /\ \A k \in 1..Len(chain) :
         /\ Count(last.value, invalidBlock(k - 1)) = Bit(HashFails(k))
         /\ Count(last.value, invalidPrevious(k - 1)) = Bit(LinkFails(k))
    /\ Len(last.value) = Problems(Len(chain))
    /\ (/\ Len(chain) = 3
        /\ chain[2].body = TamperedData
        /\ Tampers = 1) => last.value = <<invalidBlock(1)>>
    /\ (/\ Len(chain) = 3
        /\ chain[2].body = TamperedData
        /\ chain[2].hash = TamperedHash
        /\ chain[3].previousBlockHash # TamperedHash
        /\ Tampers = 2) =>
         last.value = <<invalidBlock(1), invalidPrevious(2)>>

C12_Witness ==
  /\ last.op = "validateChain"
  /\ Len(chain) = 3
  /\ chain[2].body = TamperedData
  /\ chain[2].hash = TamperedHash
  /\ last.value = <<invalidBlock(1), invalidPrevious(2)>>

\* C13: on a chain changed only by appends, every stored hash is the digest
\* of the other fields of its block, every link matches, and validateChain
\* resolves with the empty list.
C13_UntamperedChainValid ==
  /\ \A k \in 1..Len(chain) : ~HashFails(k) /\ ~LinkFails(k)
  /\ validating.pc = "await" =>
       (validating.valid /\ validating.errorLog = <<>>)
  /\ last.op = "validateChain" =>
       (last.settled = "resolved" /\ last.value = <<>>)

C13_Witness ==
  /\ last.op = "validateChain"
  /\ last.value = <<>>
  /\ Len(chain) = 3
  /\ \A i \in 1..Len(calls) : calls[i].state = "resolved"

\* C14: appends are serialized under every interleaving of submitStar calls
\* in flight: no two blocks have the same height or the same
\* previousBlockHash, and no append is lost (every block a call appended is in
\* the chain, which has one block for genesis and one for each of them).
C14_AppendsSerialized ==
  /\ \A j, k \in 1..Len(chain) :
       j # k => /\ chain[j].height # chain[k].height
                /\ chain[j].previousBlockHash # chain[k].previousBlockHash
  /\ \A i \in 1..Len(calls) :
       (calls[i].pc = "await" /\ calls[i].added = "resolved") =>
         \E k \in 2..Len(chain) : chain[k] = calls[i].newBlock
  /\ \A i \in 1..Len(calls) :
       calls[i].state = "resolved" =>
         \E k \in 2..Len(chain) : chain[k] = calls[i].value
  /\ Len(chain) = 1 + SuccessfulAppends

C14_Witness ==
  /\ Len(calls) = 2
  /\ calls[1].pc = "await" /\ calls[1].added = "resolved"
  /\ calls[2].pc = "await" /\ calls[2].added = "resolved"
  /\ Len(chain) = 3
  /\ chain[2] = calls[1].newBlock
  /\ chain[3] = calls[2].newBlock

\* C15: genesis exists before any operation can observe the chain: in every
\* state after the constructor the height is at least 0 and the chain starts
\* with the genesis block, and no query observes height -1 or a missing
\* block 0.
C15_GenesisBeforeAnyOperation ==
  /\ height >= 0
  /\ Len(chain) >= 1
  /\ chain[1].body = GenesisData
  /\ last.op = "getChainHeight" => last.value >= 0
  /\ (last.op = "getBlockByHeight" /\ last.height = 0) =>
       (last.value # null /\ last.value.body = GenesisData)

C15_Witness ==
  /\ calls = <<>>
  /\ ticks = 0
  /\ last.op = "getBlockByHeight"
  /\ last.height = 0
  /\ last.value = chain[1]

\* C16: the genesis block is created exactly once: in every state exactly
\* the first block carries the genesis body, and initializeChain called on a
\* chain that is not empty leaves the chain and the height unchanged.
C16_GenesisOnce ==
  /\ []({k \in 1..Len(chain) : chain[k].body = GenesisData} = {1})
  /\ [][(last'.op = "initializeChain" /\ last.op # "initializeChain") =>
         (chain' = chain /\ height' = height)]_vars

C16_Witness ==
  /\ last.op = "initializeChain"
  /\ Len(chain) = 3
  /\ height = 2

\* every field of the block is assigned
Populated(block) ==
  /\ DOMAIN block = {"body", "previousBlockHash", "time", "height", "hash"}
  /\ "sha256" \in DOMAIN block.hash
  /\ Len(block.time) > 0
  /\ block.height >= 0
  /\ block.height = 0 <=> block.previousBlockHash = null

\* C17: the append is all or nothing: when it fails inside (JSON.stringify
\* throws) the chain and the height are as before the call and its promise
\* is rejected; when it succeeds its promise resolves with a block whose
\* previousBlockHash, time, height and hash are all assigned.
C17_AppendAllOrNothing ==
  [][(IsSubmit /\ NewCall.pc = "await") =>
      /\ NewCall.added \in {"resolved", "rejected"}
      /\ NewCall.added = "rejected" <=> last'.star = Unserializable
      /\ NewCall.added = "rejected" =>
           (chain' = chain /\ height' = height)
      /\ NewCall.added = "resolved" =>
           /\ Populated(NewCall.newBlock)
           /\ chain' = Append(chain, NewCall.newBlock)
           /\ height' = height + 1]_vars

C17_Witness ==
  /\ last.op = "submitStar"
  /\ last.star = Unserializable
  /\ Len(calls) = 2
  /\ calls[1].state = "resolved"
  /\ calls[2].pc = "await" /\ calls[2].added = "rejected"
  /\ Len(chain) = 2

\* C18: a query never observes a torn state: in every state, also with a
\* submitStar or a validateChain in flight, every block of the chain has all
\* its fields assigned and the height is the chain length minus one, and the
\* blocks the queries resolve with are such blocks.
C18_NoTornRead ==
  /\ \A k \in 1..Len(chain) : Populated(chain[k])
  /\ height = Len(chain) - 1
  /\ validating.pc = "await" => validating.i < Len(chain)
  /\ (last.op \in {"getBlockByHash", "getBlockByHeight"}
        /\ last.settled = "resolved" /\ last.value # null) =>
       Populated(last.value)
  /\ last.op = "getChainHeight" => last.value <= Len(chain) - 1

C18_Witness ==
  /\ last.op = "getBlockByHeight"
  /\ Len(chain) = 3
  /\ last.value = chain[3]
  /\ calls[2].pc = "await"
  /\ calls[2].newBlock = last.value
  /\ validating.pc = "await"

ReadOps ==
  {"requestMessageOwnershipVerification", "getChainHeight", "getBlockByHash",
   "getBlockByHeight", "getStarsByWalletAddress", "validateChain"}

\* a public operation was called in this step
Called == IF last'.op # last.op THEN TRUE ELSE last' # last

\* C19: requestMessageOwnershipVerification, getChainHeight, getBlockByHash,
\* getBlockByHeight, getStarsByWalletAddress and validateChain leave the
\* chain, its blocks, the height and the pending calls unchanged, and
\* requestMessageOwnershipVerification(address) resolves with
\* address:seconds:starRegistry, the seconds of the current time.
C19_QueriesChangeNothing ==
  /\ [][((Called /\ last'.op \in ReadOps) \/ validating' # validating) =>
         (chain' = chain /\ height' = height /\ calls' = calls)]_vars
  /\ [](last.op = "requestMessageOwnershipVerification" =>
         /\ last.settled = "resolved"
         /\ last.value = last.address \o <<":">>
                            \o toString(last.currentMs \div 1000)
                            \o <<":">> \o starRegistry)

C19_Witness ==
  /\ last.op = "requestMessageOwnershipVerification"
  /\ last.currentMs = StartMs + 300000
  /\ last.value = <<"B", ":", "3", "0", "1", ":">> \o starRegistry
  /\ Len(chain) = 2

\* C20: every block after genesis was appended by a submitStar call for
\* which the verifier accepted the message and the address stored in the
\* block, and the timestamp of that message was a number at most 300
\* seconds before the current time; nothing else appends a block.
C20_AdmissionSafety ==
  [][Len(chain') > Len(chain) =>
      /\ IsSubmit
      /\ chain' = Append(chain, NewCall.newBlock)
      /\ last'.isVerified = "true"
      /\ NewCall.newBlock.body.address = last'.address
      /\ NewCall.newBlock.body.message = last'.message
      /\ ~last'.messageTime.nan
      /\ last'.currentTime.val - last'.messageTime.val <= 300]_vars
====
